---------------------------- MODULE Spec2Model ----------------------------
(***************************************************************************)
(* Risk-controlled position lifecycle engine of open-nof1.ai.              *)
(*                                                                         *)
(* The model follows src/src/scheduler/tradingLoop.ts (the scheduling      *)
(* tick), src/src/tools/trading/tradeExecution.ts (openPosition and        *)
(* closePosition), src/src/tools/trading/accountManagement.ts              *)
(* (syncPositions) and the strategy table of the trading agent.            *)
(*                                                                         *)
(* Units.  Prices are integers.  A leveraged PnL percentage is carried in  *)
(* hundredths of a percent (800 = 8%).  Money (pnl, fee) is carried in     *)
(* 1/10000 of a quote unit, so that the 0.0005 fee rate is the integer 5.  *)
(***************************************************************************)
EXTENDS Integers, Sequences, FiniteSets, TLC

(***************************************************************************)
(* Domains of the environment's inputs                                     *)
(***************************************************************************)
Symbols == {"BTC"}
Ticks == {"t1", "t2"}
NoPos == [side |-> "none", qty |-> 0, entry |-> 0, lev |-> 0, seen |-> 0]

\* Prices the exchange may quote for a symbol.
PricesOf(s) == {997, 1000, 1006, 1008}
\* Account totals the exchange may report.
Balances == {40, 160, 200}
\* Intents the decision generator may hand to the tools.
OpenIntents ==
  {[symbol |-> "BTC", side |-> "long", leverage |-> 10, amountUsdt |-> 100],
   [symbol |-> "BTC", side |-> "short", leverage |-> 10, amountUsdt |-> 100],
   [symbol |-> "BTC", side |-> "long", leverage |-> 11, amountUsdt |-> 100]}
CloseIntents ==
  {[symbol |-> "BTC", percentage |-> 100],
   [symbol |-> "BTC", percentage |-> 50]}

(***************************************************************************)
(* Bounds of the model                                                     *)
(***************************************************************************)
MaxOrders == 2
MaxTrades == 2
MaxClock == 1
MaxMoves == 2
MaxFaults == 1
MaxDecisions == 1

(***************************************************************************)
(* Program constants                                                       *)
(***************************************************************************)
MAX_LEVERAGE == 10
MAX_POSITIONS == 5
NoNewPositionPercent == 15
ForceClosePercent == 20
MaxHoldHours == 36
\* The clock advances by the maximum holding time.
ClockStepHours == MaxHoldHours
OrderSizeMin == 1
OrderSizeMax == 1000000
SlippagePercent == 2
StopLossUsdt == 50
TakeProfitUsdt == 10000
FeeRateE4 == 5
PnlScale == 10000
TradingStrategy == "balanced"

Abs(x) == IF x < 0 THEN -x ELSE x
Max2(a, b) == IF a >= b THEN a ELSE b
Min2(a, b) == IF a <= b THEN a ELSE b
\* Math.ceil(n * p / 100) for non-negative integers
CeilPct(n, p) == (n * p + 99) \div 100

(***************************************************************************)
(* getStrategyParams: leverage range and stop-loss table of a strategy     *)
(***************************************************************************)
getStrategyParams(strategy) ==
  CASE strategy = "conservative" ->
         [leverageMin |-> Max2(1, CeilPct(MAX_LEVERAGE, 30)),
          leverageMax |-> Max2(2, CeilPct(MAX_LEVERAGE, 60)),
          low |-> -350, mid |-> -300, high |-> -250]
    [] strategy = "balanced" ->
         [leverageMin |-> Max2(2, CeilPct(MAX_LEVERAGE, 60)),
          leverageMax |-> Max2(3, CeilPct(MAX_LEVERAGE, 85)),
          low |-> -300, mid |-> -250, high |-> -200]
    [] OTHER ->
         [leverageMin |-> Max2(3, CeilPct(MAX_LEVERAGE, 85)),
          leverageMax |-> MAX_LEVERAGE,
          low |-> -250, mid |-> -200, high |-> -150]

\* Stop-loss line of a position by its leverage tier.
StopLossLow(strategy, leverage) == getStrategyParams(strategy).low

StopLossPercent(strategy, leverage) ==
  LET p == getStrategyParams(strategy)
      leverageMid == (p.leverageMin + p.leverageMax) \div 2
      leverageHigh == p.leverageMin + ((p.leverageMax - p.leverageMin) * 75) \div 100
  IN  IF leverage >= leverageHigh THEN p.high
      ELSE IF leverage >= leverageMid THEN p.mid
      ELSE p.low

\* Leveraged PnL% of a position, in hundredths of a percent.
PnlPercent(side, entryPrice, currentPrice, leverage) ==
  IF entryPrice > 0
  THEN (((currentPrice - entryPrice) * 10000 * (IF side = "long" THEN 1 ELSE -1))
          \div entryPrice) * leverage
  ELSE 0

\* Trailing line derived from the current PnL%.
TrailingStopPercent(pnlPercent, stopLossPercent) ==
  IF pnlPercent >= 2500 THEN 1500
  ELSE IF pnlPercent >= 1500 THEN 800
  ELSE IF pnlPercent >= 800 THEN 300
  ELSE stopLossPercent

NoEval == [close |-> FALSE, reason |-> "NONE"]

\* The four forced-close rules of one evaluation: a) holding time,
\* b) stop loss, c) trailing take profit, d) peak drawdown.
RiskDecision(pnlPercent, peakPnlPercent, holdingHours, stopLossPercent) ==
  LET a == holdingHours >= MaxHoldHours
      b == pnlPercent <= stopLossPercent
      r1 == IF b THEN [close |-> TRUE, reason |-> "STOP_LOSS"]
            ELSE IF a THEN [close |-> TRUE, reason |-> "MAX_HOLD_TIME"]
            ELSE NoEval
      trailing == TrailingStopPercent(pnlPercent, stopLossPercent)
      r2 == IF ~r1.close /\ pnlPercent < trailing /\ trailing > stopLossPercent
            THEN [close |-> TRUE, reason |-> "TRAILING_STOP"]
            ELSE r1
      r3 == IF ~r2.close /\ peakPnlPercent > 500
               /\ (peakPnlPercent - pnlPercent) * 100 >= 30 * peakPnlPercent
            THEN [close |-> TRUE, reason |-> "PEAK_DRAWDOWN"]
            ELSE r2
  IN  r3

(***************************************************************************)
(* PnL and fee arithmetic of a close                                       *)
(***************************************************************************)
QuantoMultiplier(s) == 1

GrossPnl(side, entryPrice, exitPrice, quantity, mult) ==
  (IF side = "long" THEN exitPrice - entryPrice ELSE entryPrice - exitPrice)
    * quantity * mult * PnlScale

\* The fee with the price left out of the notional value.
FeeOfQuantity(price, quantity, mult) == quantity * mult * FeeRateE4

Fee(price, quantity, mult) == price * quantity * mult * FeeRateE4

NetPnl(side, entryPrice, exitPrice, quantity, mult) ==
  GrossPnl(side, entryPrice, exitPrice, quantity, mult)
    - (Fee(entryPrice, quantity, mult) + Fee(exitPrice, quantity, mult))

\* The notional-alias check run before a close Trade is written.
\* The check with a pnl as far from the notional value as from the expected
\* one also replaced.
CheckedPnlOnTie(pnl, side, entryPrice, finalPrice, quantity, mult, totalFee) ==
  LET notionalValue == finalPrice * quantity * mult * PnlScale
      expectedPnl == GrossPnl(side, entryPrice, finalPrice, quantity, mult) - totalFee
  IN  IF Abs(pnl - notionalValue) <= Abs(pnl - expectedPnl) THEN expectedPnl ELSE pnl

CheckedPnl(pnl, side, entryPrice, finalPrice, quantity, mult, totalFee) ==
  LET notionalValue == finalPrice * quantity * mult * PnlScale
      expectedPnl == GrossPnl(side, entryPrice, finalPrice, quantity, mult) - totalFee
  IN  IF Abs(pnl - notionalValue) < Abs(pnl - expectedPnl) THEN expectedPnl ELSE pnl


(***************************************************************************)
(* State                                                                   *)
(***************************************************************************)
VARIABLES
  price,          \* exchange: mark price of each symbol
  exPos,          \* exchange: the position held on each symbol (NoPos if none);
                  \* seen is the highest PnL% a risk evaluation computed for it
  balance,        \* exchange: account totalBalance
  dbPos,          \* positions table: sequence of rows
  trades,         \* trades table: sequence of rows
  accountHistory, \* account_history table: total_value of the first row and
                  \* the maximum total_value (0 while the table is empty)
  clock,          \* wall clock, in steps of ClockStepHours
  tick,           \* the running executeTradingDecision invocations
  exitArmed,      \* setTimeout(process.exit) is pending
  halted,         \* the process has exited
  orderCount,     \* orders accepted by the exchange so far
  lastOrder,      \* the last order accepted by the exchange, with the intent,
                  \* the account guard and the outcome of the call that placed it
  moves,          \* market events so far
  faults,         \* failed or unconfirmed calls of the exchange and the agent so far
  zeroSeen,       \* history: the latest reconciliation found the exchange
                  \* reporting no positions while local rows existed
  config,         \* the process environment (REVERSE_POSITIONS)
  calc,           \* a computation on its own: its inputs and results
  decisions       \* agent_decisions table: number of rows, counted up to MaxDecisions

vars == <<price, exPos, balance, dbPos, trades, accountHistory, clock, tick, exitArmed,
          halted, orderCount, lastOrder, moves, faults, zeroSeen, config, calc,
          decisions>>

SymOrder == <<"BTC", "ETH", "SOL", "XRP", "BNB", "DOGE">>
NowHours == clock * ClockStepHours
Opposite(side) == IF side = "long" THEN "short" ELSE "long"
IdleTick == [pc |-> "idle", positions |-> <<>>, i |-> 0, eval |-> NoEval]
NoOrder == [kind |-> "none", symbol |-> "", side |-> "", qty |-> 0, lev |-> 0,
            reduceOnly |-> FALSE, intentSide |-> "", existing |-> "none",
            amountUsdt |-> 0, request |-> 0, fill |-> 0, success |-> FALSE,
            blocked |-> FALSE, confirmed |-> FALSE, entry |-> 0]

RECURSIVE SeqFilterMap(_, _)
\* exchangeClient.getPositions(): the non-zero positions, in symbol order
ExchangePositions(ex) ==
  LET F[k \in 0..Len(SymOrder)] ==
        IF k = 0 THEN <<>>
        ELSE IF SymOrder[k] \in DOMAIN ex /\ ex[SymOrder[k]].qty > 0
             THEN Append(F[k - 1], [symbol |-> SymOrder[k], side |-> ex[SymOrder[k]].side,
                                    qty |-> ex[SymOrder[k]].qty,
                                    entry |-> ex[SymOrder[k]].entry,
                                    lev |-> ex[SymOrder[k]].lev])
             ELSE F[k - 1]
  IN  F[Len(SymOrder)]
SeqFilterMap(seq, keep) ==
  IF seq = <<>> THEN <<>>
  ELSE IF Head(seq).symbol \in keep
       THEN <<Head(seq)>> \o SeqFilterMap(Tail(seq), keep)
       ELSE SeqFilterMap(Tail(seq), keep)

\* rows of a table for one symbol
RowsOf(db, s) == SeqFilterMap(db, {s})
\* DELETE FROM positions WHERE symbol = ?
DeleteSymbol(db, s) == SeqFilterMap(db, Symbols \ {s})
\* new Map(rows.map(row => [row.symbol, row])).get(symbol): the last row wins
HasRow(db, s) == RowsOf(db, s) # <<>>
MapGet(db, s) == RowsOf(db, s)[Len(RowsOf(db, s))]

\* A reconciliation finds no exchange positions while local rows exist.
ObservesZero(raw, db) == raw = <<>> /\ db # <<>>

\* No PnL computation on its own is under way.
NoCalc == [phase |-> "none", side |-> "long", entry |-> 0, exit |-> 0, qty |-> 0,
           mult |-> 0, supplied |-> 0, gross |-> 0, openFee |-> 0, closeFee |-> 0,
           net |-> 0, written |-> 0]

ProgramInit ==
  /\ price = [s \in Symbols |-> 1000]
  /\ exPos = [s \in Symbols |-> NoPos]
  /\ balance = 160
  /\ dbPos = <<>>
  /\ trades = <<>>
  /\ accountHistory = [initial |-> balance, peak |-> balance]
  /\ clock = 0
  /\ tick = [t \in Ticks |-> IdleTick]
  /\ exitArmed = FALSE
  /\ halted = FALSE
  /\ orderCount = 0
  /\ lastOrder = NoOrder
  /\ moves = 0
  /\ faults = 0
  /\ zeroSeen = FALSE
  /\ config \in [reversePositions : BOOLEAN]
  /\ decisions = 0

Init == ProgramInit /\ calc = NoCalc

(***************************************************************************)
(* The exchange                                                            *)
(***************************************************************************)
\* The exchange adapter in use (ExchangeFactory: EXCHANGE, default gateio).
ExchangeAdapter == "gateio"

\* The reduce-only flag the adapter hands to the exchange for an order whose
\* parameters carry reduceOnly and isReduceOnly (each TRUE or absent).
\* GateAdapter.placeOrder forwards params.reduceOnly only; BinanceAdapter
\* uses params.reduceOnly ?? params.isReduceOnly ?? false.
AdapterReduceOnly(reduceOnly, isReduceOnly) ==
  IF ExchangeAdapter = "gateio" THEN reduceOnly ELSE (reduceOnly \/ isReduceOnly)

\* Whether the exchange takes a market order: a reduce-only order needs a
\* position of the opposite side, and every order a positive size.
OrderAccepted(ex, s, side, qty, reduceOnly) ==
  /\ qty > 0
  /\ reduceOnly => (ex[s].qty > 0 /\ ex[s].side = Opposite(side))

\* The position on symbol s after a market order of the given side fills
\* at fillPrice (one-way mode: an opposite order nets against the position).
FillOrder(ex, s, side, qty, lev, reduceOnly, fillPrice) ==
  LET cur == ex[s]
      fresh == [side |-> side, qty |-> qty, entry |-> fillPrice, lev |-> lev, seen |-> 0]
      new ==
        IF cur.qty = 0 THEN fresh
        ELSE IF cur.side = side
        THEN [cur EXCEPT !.qty = cur.qty + qty,
                         !.entry = (cur.entry * cur.qty + fillPrice * qty) \div (cur.qty + qty),
                         !.lev = lev]
        ELSE IF qty < cur.qty
        THEN [cur EXCEPT !.qty = cur.qty - qty]
        ELSE IF qty = cur.qty \/ reduceOnly
        THEN NoPos
        ELSE [fresh EXCEPT !.qty = qty - cur.qty, !.lev = cur.lev]
  IN  [ex EXCEPT ![s] = new]

(***************************************************************************)
(* Reconciliation                                                          *)
(***************************************************************************)
\* The positions table left as it is.
KeepPositions(db, positions, now) == db

\* syncPositionsFromGate(positions): the positions table afterwards.
\* The INSERT names no peak_pnl_percent, so the column takes its default.
syncPositionsFromGate(db, positions, now) ==
  IF Len(positions) = 0 /\ Len(db) > 0
  THEN db
  ELSE [k \in 1..Len(positions) |->
          LET pos == positions[k]
              known == HasRow(db, pos.symbol)
          IN  [symbol |-> pos.symbol, side |-> pos.side, qty |-> pos.qty,
               entry |-> pos.entry, lev |-> pos.lev, peak |-> 0,
               openedAt |-> IF known THEN MapGet(db, pos.symbol).openedAt ELSE now,
               orderId |-> IF known THEN MapGet(db, pos.symbol).orderId ELSE 0]]

\* getPositions(cached) of tradingLoop.ts: the exchange positions with the
\* mark price and the opening time kept in the positions table.
FormatPositions(positions, db, px, now) ==
  [k \in 1..Len(positions) |->
     LET pos == positions[k]
     IN  [symbol |-> pos.symbol, side |-> pos.side, qty |-> pos.qty,
          entry |-> pos.entry, cur |-> px[pos.symbol], lev |-> pos.lev,
          openedAt |-> IF HasRow(db, pos.symbol)
                       THEN MapGet(db, pos.symbol).openedAt ELSE now]]

\* UPDATE positions SET peak_pnl_percent = ? WHERE symbol = ?
SetPeak(db, s, peak) ==
  [k \in 1..Len(db) |-> IF db[k].symbol = s THEN [db[k] EXCEPT !.peak = peak] ELSE db[k]]

(***************************************************************************)
(* fixHistoricalPnlRecords: recompute pnl and fee of the close trades from *)
(* the latest earlier open trade of the same symbol.                       *)
(***************************************************************************)
OpenBefore(tr, k) == {j \in 1..(k - 1) : tr[j].type = "open" /\ tr[j].symbol = tr[k].symbol}
LatestOpenBefore(tr, k) == CHOOSE j \in OpenBefore(tr, k) : \A h \in OpenBefore(tr, k) : h <= j

\* The corrector with the recorded pnl taken for the gross PnL: it deducts
\* the fees from what the row holds.
fixHistoricalPnlRecordsFromRecorded(tr) ==
  [k \in 1..Len(tr) |->
     IF tr[k].type = "close" /\ OpenBefore(tr, k) # {}
     THEN LET openPrice == tr[LatestOpenBefore(tr, k)].price
              mult == QuantoMultiplier(tr[k].symbol)
              totalFee == Fee(openPrice, tr[k].qty, mult) + Fee(tr[k].price, tr[k].qty, mult)
              correctPnl == GrossPnl(tr[k].side, openPrice, tr[k].price, tr[k].qty, mult)
                              - totalFee
          IN  IF Abs(tr[k].pnl - correctPnl) > 5000 \/ Abs(tr[k].fee - totalFee) > 1000
              THEN [tr[k] EXCEPT !.pnl = tr[k].pnl - totalFee, !.fee = totalFee]
              ELSE tr[k]
     ELSE tr[k]]

\* The corrector with an UPDATE that also rewrites the price of the row.
fixHistoricalPnlRecordsAndPrice(tr) ==
  [k \in 1..Len(tr) |->
     IF tr[k].type = "close" /\ OpenBefore(tr, k) # {}
     THEN [tr[k] EXCEPT !.price = tr[LatestOpenBefore(tr, k)].price]
     ELSE tr[k]]

fixHistoricalPnlRecords(tr) ==
  [k \in 1..Len(tr) |->
     IF tr[k].type = "close" /\ OpenBefore(tr, k) # {}
     THEN LET openPrice == tr[LatestOpenBefore(tr, k)].price
              mult == QuantoMultiplier(tr[k].symbol)
              totalFee == Fee(openPrice, tr[k].qty, mult) + Fee(tr[k].price, tr[k].qty, mult)
              correctPnl == GrossPnl(tr[k].side, openPrice, tr[k].price, tr[k].qty, mult)
                              - totalFee
          IN  IF Abs(tr[k].pnl - correctPnl) > 5000 \/ Abs(tr[k].fee - totalFee) > 1000
              THEN [tr[k] EXCEPT !.pnl = correctPnl, !.fee = totalFee]
              ELSE tr[k]
     ELSE tr[k]]

(***************************************************************************)
(* closeAllPositions: one closing order per exchange position; an order    *)
(* that fails is logged and the loop goes on.                              *)
(***************************************************************************)
CloseAllOrder(pos) ==
  [kind |-> "closeAll", symbol |-> pos.symbol, side |-> Opposite(pos.side),
   qty |-> pos.qty, lev |-> 0, reduceOnly |-> AdapterReduceOnly(FALSE, TRUE),
   intentSide |-> Opposite(pos.side), existing |-> pos.side,
   amountUsdt |-> 0, request |-> 0, fill |-> 0, success |-> TRUE, blocked |-> FALSE,
   confirmed |-> FALSE, entry |-> 0]

RECURSIVE CloseAllFold(_, _, _)
\* state [ex, n, last] after the orders for the positions in okSet
CloseAllFold(positions, okSet, st) ==
  IF positions = <<>> THEN st
  ELSE LET pos == Head(positions)
           o == CloseAllOrder(pos)
       IN  IF pos.symbol \in okSet
              /\ OrderAccepted(st.ex, pos.symbol, o.side, o.qty, o.reduceOnly)
           THEN CloseAllFold(Tail(positions), okSet,
                  [ex |-> FillOrder(st.ex, pos.symbol, o.side, o.qty, 0, o.reduceOnly,
                                    price[pos.symbol]),
                   n |-> st.n + 1, last |-> o])
           ELSE CloseAllFold(Tail(positions), okSet, st)

(***************************************************************************)
(* The scheduling tick: executeTradingDecision                             *)
(***************************************************************************)
SetTick(t, rec) == tick' = [tick EXCEPT ![t] = rec]
\* A call of the exchange or of the agent that fails or stays unconfirmed.
Fault(failed) ==
  IF failed THEN faults < MaxFaults /\ faults' = faults + 1 ELSE faults' = faults
EndTick(t) == SetTick(t, IdleTick)

\* startTradingLoop: the immediate run and every cron firing call
\* executeTradingDecision, whether or not an earlier invocation has returned.
\* The interval is minutes long, so the step an invocation is found in by
\* the next firing is the call of the agent.
StartTick(t) ==
  /\ ~halted
  /\ tick[t].pc = "idle"
  /\ \A u \in Ticks \ {t} : tick[u].pc \in {"idle", "agent"}
  /\ t = "t2" => tick["t1"].pc = "agent"
  /\ SetTick(t, [IdleTick EXCEPT !.pc = "market"])
  /\ UNCHANGED <<price, exPos, balance, dbPos, trades, accountHistory, clock,
                 exitArmed, halted, orderCount, lastOrder, moves, faults, zeroSeen, config, calc,
                 decisions>>

\* 1. collectMarketData: no symbol with valid data, or a throw, ends the tick
CollectMarket(t) ==
  /\ ~halted
  /\ tick[t].pc = "market"
  /\ \E ok \in BOOLEAN :
       IF ok THEN SetTick(t, [tick[t] EXCEPT !.pc = "account"]) ELSE EndTick(t)
  /\ UNCHANGED <<price, exPos, balance, dbPos, trades, accountHistory, clock,
                 exitArmed, halted, orderCount, lastOrder, moves, faults, zeroSeen, config, calc,
                 decisions>>

\* 2. getAccountInfo (a failed query reads as a total of 0, which ends the
\* tick) and the comparison of checkAccountThresholds
AccountStep(t) ==
  /\ ~halted
  /\ tick[t].pc = "account"
  /\ \E apiOk \in BOOLEAN :
       LET total == IF apiOk THEN balance ELSE 0
       IN  IF total = 0 THEN EndTick(t)
           ELSE IF total <= StopLossUsdt \/ total >= TakeProfitUsdt
           THEN SetTick(t, [tick[t] EXCEPT !.pc = "closeAll"])
           ELSE SetTick(t, [tick[t] EXCEPT !.pc = "sync"])
  /\ UNCHANGED <<price, exPos, balance, dbPos, trades, accountHistory, clock,
                 exitArmed, halted, orderCount, lastOrder, moves, faults, zeroSeen, config, calc,
                 decisions>>

\* closeAllPositions of checkAccountThresholds, then the exit timer; when
\* the position query throws, the tick returns and no timer is set.
CloseAllStep(t) ==
  /\ ~halted
  /\ tick[t].pc = "closeAll"
  /\ \E posOk \in BOOLEAN, okSet \in SUBSET Symbols :
       LET st == CloseAllFold(ExchangePositions(exPos), okSet,
                              [ex |-> exPos, n |-> 0, last |-> lastOrder])
       IN  /\ Fault(~posOk \/ (posOk /\ \E s \in Symbols \ okSet : exPos[s].qty > 0))
           /\ IF posOk
              THEN /\ orderCount + st.n <= MaxOrders
                   /\ exPos' = st.ex
                   /\ orderCount' = orderCount + st.n
                   /\ lastOrder' = st.last
                   /\ exitArmed' = TRUE
              ELSE UNCHANGED <<exPos, orderCount, lastOrder, exitArmed>>
  /\ EndTick(t)
  /\ UNCHANGED <<price, balance, dbPos, trades, accountHistory, clock,
                 halted, moves, zeroSeen, config, calc,
                 decisions>>

\* setTimeout(() => process.exit(0), 5000)
ProcessExit ==
  /\ exitArmed
  /\ ~halted
  /\ halted' = TRUE
  /\ exitArmed' = FALSE
  /\ tick' = [t \in Ticks |-> IdleTick]
  /\ UNCHANGED <<price, exPos, balance, dbPos, trades, accountHistory, clock,
                 orderCount, lastOrder, moves, faults, zeroSeen, config, calc,
                 decisions>>

\* 3. fetch the exchange positions once, format them and reconcile
SyncStep(t) ==
  /\ ~halted
  /\ tick[t].pc = "sync"
  /\ \E ok \in BOOLEAN :
       LET raw == ExchangePositions(exPos)
           positions == FormatPositions(raw, dbPos, price, NowHours)
           db1 == syncPositionsFromGate(dbPos, raw, NowHours)
           db2 == IF Len(positions) # Len(db1)
                  THEN syncPositionsFromGate(db1, raw, NowHours) ELSE db1
       IN  /\ Fault(~ok)
           /\ IF ok
              THEN /\ dbPos' = db2
                   /\ zeroSeen' = ObservesZero(raw, dbPos)
                   /\ SetTick(t, [tick[t] EXCEPT !.pc = "risk", !.positions = positions, !.i = 1])
              ELSE /\ UNCHANGED <<dbPos, zeroSeen>>
                   /\ SetTick(t, [tick[t] EXCEPT !.pc = "risk", !.positions = <<>>, !.i = 1])
  /\ UNCHANGED <<price, exPos, balance, trades, accountHistory, clock,
                 exitArmed, halted, orderCount, lastOrder, moves, config, calc,
                 decisions>>

\* Outcome of polling a forced-close order (at most 5 queries): the status
\* was read as finished, with the order's price field either the fill price
\* or 0, or no query returned finished.
ForcedClosePolls == {"finished", "finishedNoPrice", "unconfirmed"}

\* The trade row a forced close writes for position pos.
ForcedCloseTrade(pos, poll, fillPrice) ==
  LET mult == QuantoMultiplier(pos.symbol)
      orderFilled == poll # "unconfirmed"
      actualExitPrice == IF poll = "finished" THEN fillPrice ELSE 0
      actualQuantity == pos.qty
      totalFee == IF orderFilled
                  THEN Fee(pos.entry, actualQuantity, mult)
                         + Fee(actualExitPrice, actualQuantity, mult)
                  ELSE 0
      pnl == IF orderFilled
             THEN GrossPnl(pos.side, pos.entry, actualExitPrice, actualQuantity, mult)
                    - totalFee
             ELSE 0
      finalPrice == IF actualExitPrice # 0 THEN actualExitPrice ELSE pos.cur
  IN  [type |-> "close", symbol |-> pos.symbol, side |-> pos.side, price |-> finalPrice,
       qty |-> actualQuantity, lev |-> pos.lev,
       pnl |-> CheckedPnl(pnl, pos.side, pos.entry, finalPrice, actualQuantity, mult,
                          totalFee),
       fee |-> totalFee, status |-> IF orderFilled THEN "filled" ELSE "pending"]

\* The evaluation records in the exchange position the PnL% it computed.
Observe(ex, pos, pnlPercent) ==
  IF ex[pos.symbol].qty > 0 /\ ex[pos.symbol].side = pos.side
  THEN [ex EXCEPT ![pos.symbol].seen = Max2(@, pnlPercent)]
  ELSE ex

\* 4. forced risk control for the next position of the tick's snapshot
RiskStep(t) ==
  /\ ~halted
  /\ tick[t].pc = "risk"
  /\ tick[t].i <= Len(tick[t].positions)
  /\ LET pos == tick[t].positions[tick[t].i]
         s == pos.symbol
         pnlPercent == PnlPercent(pos.side, pos.entry, pos.cur, pos.lev)
         rows == RowsOf(dbPos, s)
         stored == IF rows # <<>> THEN rows[1].peak ELSE 0
         raise == rows # <<>> /\ pnlPercent > stored
         peakPnlPercent == IF raise THEN pnlPercent ELSE stored
         db1 == IF raise THEN SetPeak(dbPos, s, pnlPercent) ELSE dbPos
         dec == RiskDecision(pnlPercent, peakPnlPercent, NowHours - pos.openedAt,
                             StopLossPercent(TradingStrategy, pos.lev))
         ro == AdapterReduceOnly(FALSE, TRUE)
         next == [tick[t] EXCEPT !.i = tick[t].i + 1, !.eval = dec]
     IN  \E placeOk \in BOOLEAN, poll \in ForcedClosePolls :
           /\ Fault(dec.close /\ (~placeOk \/ poll # "finished"))
           /\ IF dec.close /\ placeOk /\ OrderAccepted(exPos, s, Opposite(pos.side), pos.qty, ro)
              THEN /\ orderCount < MaxOrders
                   /\ Len(trades) < MaxTrades
                   /\ exPos' = FillOrder(exPos, s, Opposite(pos.side), pos.qty, 0, ro, price[s])
                   /\ orderCount' = orderCount + 1
                   /\ lastOrder' = [kind |-> "forced", symbol |-> s,
                                    side |-> Opposite(pos.side), qty |-> pos.qty, lev |-> 0,
                                    reduceOnly |-> ro, intentSide |-> Opposite(pos.side),
                                    existing |-> exPos[s].side,
                                    amountUsdt |-> 0, request |-> 0, fill |-> 0,
                                    success |-> poll # "unconfirmed",
                                    blocked |-> FALSE,
                                    confirmed |-> poll # "unconfirmed",
                                    entry |-> pos.entry]
                   /\ trades' = Append(trades, ForcedCloseTrade(pos, poll, price[s]))
                   /\ dbPos' = DeleteSymbol(db1, s)
                   /\ SetTick(t, next)
              ELSE /\ dbPos' = db1
                   /\ exPos' = Observe(exPos, pos, pnlPercent)
                   /\ SetTick(t, next)
                   /\ UNCHANGED <<orderCount, lastOrder, trades>>
  /\ UNCHANGED <<price, balance, accountHistory, clock, exitArmed, halted,
                 moves, zeroSeen, config, calc,
                 decisions>>

\* 5.-9. refresh the positions, fix the historical records, call the agent
RiskDone(t) ==
  /\ ~halted
  /\ tick[t].pc = "risk"
  /\ tick[t].i > Len(tick[t].positions)
  /\ trades' = fixHistoricalPnlRecords(trades)
  /\ SetTick(t, [tick[t] EXCEPT !.pc = "agent", !.positions = <<>>, !.i = 0,
                                !.eval = NoEval])
  /\ UNCHANGED <<price, exPos, balance, dbPos, accountHistory, clock,
                 exitArmed, halted, orderCount, lastOrder, moves, faults, zeroSeen, config, calc,
                 decisions>>

\* 9. The agent returned or threw.  When it returned, the agent_decisions row
\* of the tick is inserted (a failed INSERT is caught like a throw of the
\* agent) and the positions are reconciled from a fresh position query; when
\* it threw, the catch reconciles, fetching the positions itself.  A position
\* query that throws leaves the table as it is.  Then the historical records
\* are fixed again.
AgentReturn(t) ==
  /\ ~halted
  /\ tick[t].pc = "agent"
  /\ \E agentOk \in BOOLEAN, fetchOk \in BOOLEAN :
       /\ Fault(~agentOk \/ ~fetchOk)
       /\ decisions' = IF agentOk THEN Min2(decisions + 1, MaxDecisions) ELSE decisions
       /\ dbPos' = IF fetchOk
                   THEN syncPositionsFromGate(dbPos, ExchangePositions(exPos), NowHours)
                   ELSE dbPos
       /\ zeroSeen' = IF fetchOk THEN ObservesZero(ExchangePositions(exPos), dbPos)
                      ELSE zeroSeen
  /\ trades' = fixHistoricalPnlRecords(trades)
  /\ EndTick(t)
  /\ UNCHANGED <<price, exPos, balance, accountHistory, clock, exitArmed, halted,
                 orderCount, lastOrder, moves, config, calc>>

(***************************************************************************)
(* The agent's tools                                                       *)
(***************************************************************************)
AgentRunning == \E t \in Ticks : tick[t].pc = "agent"

RECURSIVE TotalExposure(_)
\* sum of quantity * entryPrice * quantoMultiplier over the positions
TotalExposure(positions) ==
  IF positions = <<>> THEN 0
  ELSE Head(positions).qty * Head(positions).entry * QuantoMultiplier(Head(positions).symbol)
         + TotalExposure(Tail(positions))

\* Number of contracts ordered for an amount at a leverage and price.
OpenQuantity(amountUsdt, leverage, mult, currentPrice) ==
  Min2(Max2((amountUsdt * leverage) \div (mult * currentPrice), OrderSizeMin), OrderSizeMax)

\* The drawdown of the account total from the recorded peak is at or above
\* the percentage from which no new position is opened.
DrawdownBlocked(total, history) ==
  LET peakBalance == IF history.peak # 0 THEN history.peak ELSE total
  IN  peakBalance > 0 /\ (peakBalance - total) * 100 >= NoNewPositionPercent * peakBalance

\* The pre-trade checks with the position count tested for exceeding the limit.
OpenChecksAboveLimit(side, symbol, leverage, amountUsdt, ex, total, history) ==
  LET positions == ExchangePositions(ex)
      peakBalance == IF history.peak # 0 THEN history.peak ELSE total
  IN  IF amountUsdt <= 0 THEN "amount"
      ELSE IF leverage < 1 \/ leverage > MAX_LEVERAGE THEN "leverage"
      ELSE IF Len(positions) > MAX_POSITIONS THEN "maxPositions"
      ELSE IF ex[symbol].qty > 0 /\ ex[symbol].side # side THEN "oppositeSide"
      ELSE IF total <= 0 THEN "balance"
      ELSE IF peakBalance > 0
                /\ (peakBalance - total) * 100 >= NoNewPositionPercent * peakBalance
           THEN "drawdown"
      ELSE IF TotalExposure(positions) + amountUsdt * leverage > total * MAX_LEVERAGE
           THEN "exposure"
      ELSE "ok"

\* The pre-trade checks without the test of the drawdown from the peak.
OpenChecksNoDrawdown(side, symbol, leverage, amountUsdt, ex, total, history) ==
  LET positions == ExchangePositions(ex)
  IN  IF amountUsdt <= 0 THEN "amount"
      ELSE IF leverage < 1 \/ leverage > MAX_LEVERAGE THEN "leverage"
      ELSE IF Len(positions) >= MAX_POSITIONS THEN "maxPositions"
      ELSE IF ex[symbol].qty > 0 /\ ex[symbol].side # side THEN "oppositeSide"
      ELSE IF total <= 0 THEN "balance"
      ELSE IF TotalExposure(positions) + amountUsdt * leverage > total * MAX_LEVERAGE
           THEN "exposure"
      ELSE "ok"

\* The pre-trade checks of openPosition, in order; "ok" when all pass.
OpenChecks(side, symbol, leverage, amountUsdt, ex, total, history) ==
  LET positions == ExchangePositions(ex)
      peakBalance == IF history.peak # 0 THEN history.peak ELSE total
  IN  IF amountUsdt <= 0 THEN "amount"
      ELSE IF leverage < 1 \/ leverage > MAX_LEVERAGE THEN "leverage"
      ELSE IF Len(positions) >= MAX_POSITIONS THEN "maxPositions"
      ELSE IF ex[symbol].qty > 0 /\ ex[symbol].side # side THEN "oppositeSide"
      ELSE IF total <= 0 THEN "balance"
      ELSE IF peakBalance > 0
                /\ (peakBalance - total) * 100 >= NoNewPositionPercent * peakBalance
           THEN "drawdown"
      ELSE IF TotalExposure(positions) + amountUsdt * leverage > total * MAX_LEVERAGE
           THEN "exposure"
      ELSE "ok"

\* The status in the answer of placeOrder (rawOrder.status || "open"), which
\* is the order status of the run when no order query succeeds.
PlaceStatuses == {"open", "finished"}

\* Outcomes of the exchange calls of one openPosition run: a query or the
\* order placement throws; the order fills and is read back; it fills more
\* than the tolerance away from the ticker and the rollback order is taken
\* or refused; it is cancelled unfilled; it fills, within the tolerance or
\* not, and no query succeeds; it fills and the positions table cannot be
\* written after the trade was recorded.
OpenOutcomes == {"apiError", "placeError", "filled", "slipped", "slippedStuck",
                 "cancelled", "unknown", "unknownSlipped", "upsertError"}

\* positions table after the upsert of openPosition
UpsertPosition(db, symbol, side, qty, fillPrice, leverage, orderId, now) ==
  IF HasRow(db, symbol)
  THEN [k \in 1..Len(db) |->
          IF db[k].symbol = symbol
          THEN [db[k] EXCEPT !.qty = qty, !.entry = fillPrice, !.lev = leverage,
                             !.side = side, !.orderId = orderId]
          ELSE db[k]]
  ELSE Append(db, [symbol |-> symbol, side |-> side, qty |-> qty, entry |-> fillPrice,
                   lev |-> leverage, peak |-> 0, openedAt |-> now, orderId |-> orderId])

\* openPosition tool
OpenPosition(symbol, intentSide, leverage, amountUsdt) ==
  /\ ~halted
  /\ AgentRunning
  \* A run that fails a pre-trade check returns before any order is placed,
  \* whatever the exchange would have answered.
  /\ \E outcome \in IF OpenChecks(IF config.reversePositions THEN Opposite(intentSide)
                                   ELSE intentSide, symbol, leverage, amountUsdt, exPos,
                                   balance, accountHistory) = "ok"
                     THEN OpenOutcomes ELSE {"apiError"} :
     \E placed \in IF outcome \in {"unknown", "unknownSlipped"} THEN PlaceStatuses
                    ELSE {"finished"} :
       LET side == IF config.reversePositions THEN Opposite(intentSide) ELSE intentSide
           finalOrderStatus == IF outcome \in {"unknown", "unknownSlipped"} THEN placed
                               ELSE "finished"
           check == OpenChecks(side, symbol, leverage, amountUsdt, exPos, balance,
                               accountHistory)
           mult == QuantoMultiplier(symbol)
           currentPrice == price[symbol]
           quantity == OpenQuantity(amountUsdt, leverage, mult, currentPrice)
           orderId == orderCount + 1
           slip == outcome \in {"slipped", "slippedStuck"}
           fillPrice == IF slip \/ outcome = "unknownSlipped"
                        THEN currentPrice + ((SlippagePercent + 1) * currentPrice) \div 100
                        ELSE currentPrice
           actualFillPrice == IF outcome = "unknownSlipped" THEN currentPrice
                              ELSE fillPrice
           order == [kind |-> "open", symbol |-> symbol, side |-> side, qty |-> quantity,
                     lev |-> leverage, reduceOnly |-> AdapterReduceOnly(FALSE, FALSE),
                     intentSide |-> intentSide, existing |-> exPos[symbol].side,
                     amountUsdt |-> amountUsdt, request |-> currentPrice,
                     fill |-> IF outcome = "cancelled" THEN 0 ELSE fillPrice,
                     success |-> outcome \in {"filled", "unknown", "unknownSlipped"},
                     blocked |-> DrawdownBlocked(balance, accountHistory),
                     confirmed |-> outcome \notin {"unknown", "unknownSlipped"},
                     entry |-> 0]
           opened == FillOrder(exPos, symbol, side, quantity, leverage, FALSE, fillPrice)
           rollback == [order EXCEPT !.kind = "rollback", !.side = Opposite(side),
                                     !.lev = 0, !.fill = currentPrice,
                                     !.reduceOnly = AdapterReduceOnly(TRUE, FALSE)]
           row == [type |-> "open", symbol |-> symbol, side |-> side,
                   price |-> actualFillPrice,
                   qty |-> quantity, lev |-> leverage, pnl |-> 0,
                   fee |-> Fee(actualFillPrice, quantity, mult),
                   status |-> IF finalOrderStatus = "finished" THEN "filled"
                              ELSE "pending"]
       IN  /\ Fault(check = "ok"
                     /\ outcome \in {"slipped", "slippedStuck", "cancelled", "unknown",
                                     "unknownSlipped", "upsertError"})
           /\ IF check # "ok" \/ outcome \in {"apiError", "placeError"}
              THEN UNCHANGED <<exPos, orderCount, lastOrder, trades, dbPos>>
              ELSE IF outcome = "cancelled"
              THEN /\ orderCount < MaxOrders
                   /\ orderCount' = orderId
                   /\ lastOrder' = order
                   /\ UNCHANGED <<exPos, trades, dbPos>>
              ELSE IF slip
              THEN /\ orderCount + 1 < MaxOrders
                   /\ exPos' = IF outcome = "slipped"
                               THEN FillOrder(opened, symbol, rollback.side, quantity, 0,
                                              rollback.reduceOnly, currentPrice)
                               ELSE opened
                   /\ orderCount' = IF outcome = "slipped" THEN orderId + 1 ELSE orderId
                   /\ lastOrder' = IF outcome = "slipped" THEN rollback ELSE order
                   /\ UNCHANGED <<trades, dbPos>>
              ELSE /\ orderCount < MaxOrders
                   /\ Len(trades) < MaxTrades
                   /\ exPos' = opened
                   /\ orderCount' = orderId
                   /\ lastOrder' = order
                   /\ trades' = Append(trades, row)
                   /\ dbPos' = IF outcome = "upsertError" THEN dbPos
                               ELSE UpsertPosition(dbPos, symbol, side, quantity,
                                                   actualFillPrice, leverage, orderId,
                                                   NowHours)
  /\ UNCHANGED <<price, balance, accountHistory, clock, tick,
                 exitArmed, halted, moves, zeroSeen, config, calc,
                 decisions>>

\* Quantities in thousandths of a contract or coin.
QtyScale == 1000

\* Math.floor((quantity * percentage) / 100), quantity in thousandths, the
\* result in whole units.
CloseSize(quantity, percentage) == (quantity * percentage) \div (100 * QtyScale)

\* Outcomes of the exchange calls of one closePosition run.
CloseOutcomes == {"apiError", "placeError", "filled", "unknown"}

\* closePosition tool
ClosePosition(symbol, percentage) ==
  /\ ~halted
  /\ AgentRunning
  \* A run that finds no position to close returns before any order is placed,
  \* whatever the exchange would have answered.
  /\ \E outcome \in IF exPos[symbol].qty = 0 THEN {"apiError"} ELSE CloseOutcomes :
     \E placed \in IF outcome = "unknown" THEN PlaceStatuses ELSE {"finished"} :
       LET pos == exPos[symbol]
           finalOrderStatus == IF outcome = "unknown" THEN placed ELSE "finished"
           mult == QuantoMultiplier(symbol)
           closeSize == CloseSize(pos.qty * QtyScale, percentage)
           ro == AdapterReduceOnly(TRUE, FALSE)
           order == [kind |-> "close", symbol |-> symbol, side |-> Opposite(pos.side),
                     qty |-> closeSize, lev |-> 0, reduceOnly |-> ro,
                     intentSide |-> Opposite(pos.side), existing |-> pos.side,
                     amountUsdt |-> 0, request |-> 0, fill |-> 0, success |-> TRUE,
                     blocked |-> DrawdownBlocked(balance, accountHistory),
                     confirmed |-> outcome = "filled", entry |-> pos.entry]
           actualExitPrice == price[symbol]
           totalFee == Fee(pos.entry, closeSize, mult) + Fee(actualExitPrice, closeSize, mult)
           pnl == GrossPnl(pos.side, pos.entry, actualExitPrice, closeSize, mult) - totalFee
           row == [type |-> "close", symbol |-> symbol, side |-> pos.side,
                   price |-> actualExitPrice, qty |-> closeSize, lev |-> pos.lev,
                   pnl |-> CheckedPnl(pnl, pos.side, pos.entry, actualExitPrice, closeSize,
                                      mult, totalFee),
                   fee |-> totalFee,
                   status |-> IF finalOrderStatus = "finished" THEN "filled"
                              ELSE "pending"]
           rejected == outcome = "apiError" \/ pos.qty = 0 \/ outcome = "placeError"
                         \/ ~OrderAccepted(exPos, symbol, order.side, closeSize, ro)
       IN  /\ Fault(~rejected /\ outcome = "unknown")
           /\ IF rejected
              THEN UNCHANGED <<exPos, orderCount, lastOrder, trades, dbPos>>
              ELSE /\ orderCount < MaxOrders
                   /\ Len(trades) < MaxTrades
                   /\ exPos' = FillOrder(exPos, symbol, order.side, closeSize, 0, ro,
                                         actualExitPrice)
                   /\ orderCount' = orderCount + 1
                   /\ lastOrder' = order
                   /\ trades' = Append(trades, row)
                   /\ dbPos' = IF percentage = 100 THEN DeleteSymbol(dbPos, symbol) ELSE dbPos
  /\ UNCHANGED <<price, balance, accountHistory, clock, tick,
                 exitArmed, halted, moves, zeroSeen, config, calc,
                 decisions>>

\* syncPositions tool: DELETE FROM positions, then one INSERT per exchange
\* position with entry_order_id "synced" and opened_at now.
SyncPositionsTool ==
  /\ ~halted
  /\ AgentRunning
  /\ \E ok \in BOOLEAN :
       LET positions == ExchangePositions(exPos)
       IN  /\ dbPos' = IF ok
                       THEN [k \in 1..Len(positions) |->
                               [symbol |-> positions[k].symbol, side |-> positions[k].side,
                                qty |-> positions[k].qty, entry |-> positions[k].entry,
                                lev |-> positions[k].lev, peak |-> 0,
                                openedAt |-> NowHours, orderId |-> 0]]
                       ELSE dbPos
           /\ zeroSeen' = IF ok THEN ObservesZero(positions, dbPos) ELSE zeroSeen
  /\ UNCHANGED <<price, exPos, balance, trades, accountHistory, clock,
                 tick, exitArmed, halted, orderCount, lastOrder, moves, faults, config, calc,
                 decisions>>

(***************************************************************************)
(* The environment.  Market events are minutes apart, the exchange and     *)
(* database calls of a tick take seconds: an event falls between ticks or  *)
(* into the call of the agent.                                             *)
(***************************************************************************)
Quiet == \A t \in Ticks : tick[t].pc \in {"idle", "agent"}

\* The market moves the mark price of a symbol.
PriceMove(s, p) ==
  /\ Quiet
  /\ moves < MaxMoves
  /\ p \in PricesOf(s) \ {price[s]}
  /\ price' = [price EXCEPT ![s] = p]
  /\ moves' = moves + 1
  /\ UNCHANGED <<exPos, balance, dbPos, trades, accountHistory, clock,
                 tick, exitArmed, halted, orderCount, lastOrder,
                 faults, zeroSeen, config, calc,
                 decisions>>

\* The account total reported by the exchange changes.
BalanceChange(b) ==
  /\ Quiet
  /\ moves < MaxMoves
  /\ b # balance
  /\ balance' = b
  /\ moves' = moves + 1
  /\ UNCHANGED <<price, exPos, dbPos, trades, accountHistory, clock,
                 tick, exitArmed, halted, orderCount, lastOrder,
                 faults, zeroSeen, config, calc,
                 decisions>>

\* The exchange liquidates a position (or it is closed by hand).
Liquidation(s) ==
  /\ Quiet
  /\ moves < MaxMoves
  /\ exPos[s].qty > 0
  /\ exPos' = [exPos EXCEPT ![s] = NoPos]
  /\ moves' = moves + 1
  /\ UNCHANGED <<price, balance, dbPos, trades, accountHistory, clock,
                 tick, exitArmed, halted, orderCount, lastOrder,
                 faults, zeroSeen, config, calc,
                 decisions>>

\* Time passes.
ClockAdvance ==
  /\ Quiet
  /\ clock < MaxClock
  /\ moves < MaxMoves
  /\ clock' = clock + 1
  /\ moves' = moves + 1
  /\ UNCHANGED <<price, exPos, balance, dbPos, trades, accountHistory,
                 tick, exitArmed, halted, orderCount, lastOrder,
                 faults, zeroSeen, config, calc,
                 decisions>>

\* accountRecorder: recordAccountAssets inserts the account total
recordAccountAssets ==
  /\ ~halted
  /\ accountHistory' = [initial |-> IF accountHistory.initial = 0 THEN balance
                                    ELSE accountHistory.initial,
                        peak |-> Max2(accountHistory.peak, balance)]
  /\ UNCHANGED <<price, exPos, balance, dbPos, trades, clock, tick, exitArmed,
                 halted, orderCount, lastOrder, moves, faults, zeroSeen, config, calc,
                 decisions>>

\* Values of INITIAL_BALANCE in the environment of a restarted process.
InitialBalances == {160, 200}

\* The process is started again after its exit: initDatabase with the
\* INITIAL_BALANCE of the new environment, then initTradingSystem; the trading
\* loop and the account recorder start afterwards.
Restart ==
  /\ halted
  /\ \E initialBalance \in InitialBalances :
       IF accountHistory.initial # 0 /\ accountHistory.initial # initialBalance
       THEN /\ trades' = <<>>
            /\ dbPos' = <<>>
            /\ decisions' = 0
            /\ accountHistory' = [initial |-> initialBalance, peak |-> initialBalance]
       ELSE /\ accountHistory' = IF accountHistory.initial = 0
                                 THEN [initial |-> initialBalance, peak |-> initialBalance]
                                 ELSE accountHistory
            /\ UNCHANGED <<trades, dbPos, decisions>>
  /\ halted' = FALSE
  /\ exitArmed' = FALSE
  /\ tick' = [t \in Ticks |-> IdleTick]
  /\ UNCHANGED <<price, exPos, balance, clock, orderCount, lastOrder, moves, faults,
                 zeroSeen, config, calc>>

Next ==
  \/ \E t \in Ticks : StartTick(t)
  \/ \E t \in Ticks : CollectMarket(t)
  \/ \E t \in Ticks : AccountStep(t)
  \/ \E t \in Ticks : CloseAllStep(t)
  \/ ProcessExit
  \/ \E t \in Ticks : SyncStep(t)
  \/ \E t \in Ticks : RiskStep(t)
  \/ \E t \in Ticks : RiskDone(t)
  \/ \E t \in Ticks : AgentReturn(t)
  \/ \E o \in OpenIntents : OpenPosition(o.symbol, o.side, o.leverage, o.amountUsdt)
  \/ \E c \in CloseIntents : ClosePosition(c.symbol, c.percentage)
  \/ SyncPositionsTool
  \/ \E s \in Symbols : \E p \in PricesOf(s) : PriceMove(s, p)
  \/ \E b \in Balances : BalanceChange(b)
  \/ \E s \in Symbols : Liquidation(s)
  \/ ClockAdvance
  \/ recordAccountAssets
  \/ Restart

Spec == Init /\ [][Next]_vars

\* The steps of executeTradingDecision: an invocation that has started runs
\* on to its end, and the cron schedule keeps starting invocations.
TickStep ==
  \E t \in Ticks :
    \/ StartTick(t)
    \/ CollectMarket(t)
    \/ AccountStep(t)
    \/ CloseAllStep(t)
    \/ SyncStep(t)
    \/ RiskStep(t)
    \/ RiskDone(t)
    \/ AgentReturn(t)

\* A tick gets its market data, and a tick gets a usable account total.
MarketCollected == \E t \in Ticks : CollectMarket(t) /\ tick'[t].pc = "account"
AccountRead == \E t \in Ticks : AccountStep(t) /\ tick'[t].pc \in {"sync", "closeAll"}

\* The program with its ticks running on and the market-data and account
\* queries not failing forever; the agent's tool calls, the market and the
\* other failures of exchange calls stay free.
SpecLive ==
  Spec /\ WF_vars(TickStep) /\ SF_vars(MarketCollected) /\ SF_vars(AccountRead)

(***************************************************************************)
(* openPosition on an account trading all the symbols: the positions held  *)
(* are drawn, a tick is at its agent call, and the agent opens positions.  *)
(***************************************************************************)
TradingSymbols == {SymOrder[k] : k \in 1..Len(SymOrder)}

\* A position of one contract held since the start.
HeldPos == [side |-> "long", qty |-> 1, entry |-> 1000, lev |-> 10, seen |-> 0]

PortfolioIntents ==
  {[symbol |-> s, side |-> "long", leverage |-> 10, amountUsdt |-> 100] :
     s \in TradingSymbols}
  \cup {[symbol |-> "BTC", side |-> "short", leverage |-> 10, amountUsdt |-> 100]}

InitOpen ==
  /\ price = [s \in TradingSymbols |-> 1000]
  /\ \E held \in SUBSET TradingSymbols :
       /\ Cardinality(held) <= MAX_POSITIONS
       /\ exPos = [s \in TradingSymbols |-> IF s \in held THEN HeldPos ELSE NoPos]
  /\ balance = 1000
  /\ dbPos = syncPositionsFromGate(<<>>, ExchangePositions(exPos), 0)
  /\ trades = <<>>
  /\ accountHistory = [initial |-> balance, peak |-> balance]
  /\ clock = 0
  /\ tick = [t \in Ticks |-> IF t = "t1" THEN [IdleTick EXCEPT !.pc = "agent"]
                             ELSE IdleTick]
  /\ exitArmed = FALSE
  /\ halted = FALSE
  /\ orderCount = 0
  /\ lastOrder = NoOrder
  /\ moves = 0
  /\ faults = 0
  /\ zeroSeen = FALSE
  /\ config \in [reversePositions : BOOLEAN]
  /\ decisions = 0
  /\ calc = NoCalc

NextOpen == \E o \in PortfolioIntents : OpenPosition(o.symbol, o.side, o.leverage, o.amountUsdt)

SpecOpen == InitOpen /\ [][NextOpen]_vars

(***************************************************************************)
(* The stop-loss rule of the forced risk control on its own: a strategy, a *)
(* leverage and a PnL% are drawn, the stop-loss line is selected and the   *)
(* position is evaluated as the risk loop evaluates it.                    *)
(***************************************************************************)
Strategies == {"conservative", "balanced", "aggressive"}

\* PnL% values at, just below and just above every stop-loss line.
RiskPnls ==
  {l + d : l \in {-350, -300, -250, -200, -150}, d \in {-1, 0, 1}} \cup {0}

RiskInputs ==
  {[phase |-> "position", strategy |-> st, leverage |-> lev, pnlPercent |-> pnl,
    holdingHours |-> h, stopLossPercent |-> 0, eval |-> NoEval] :
     st \in Strategies, lev \in 1..MAX_LEVERAGE, pnl \in RiskPnls, h \in {0, MaxHoldHours}}

InitRisk == ProgramInit /\ calc \in RiskInputs

\* b) the stop-loss line of the strategy for the leverage of the position
SelectStopLoss ==
  /\ calc.phase = "position"
  /\ calc' = [calc EXCEPT !.phase = "line",
                          !.stopLossPercent = StopLossPercent(calc.strategy, calc.leverage)]
  /\ UNCHANGED <<price, exPos, balance, dbPos, trades, accountHistory, clock, tick,
                 exitArmed, halted, orderCount, lastOrder, moves, faults, zeroSeen, config,
                 decisions>>

\* a)-d) the evaluation of the position against the line
EvaluateRisk ==
  /\ calc.phase = "line"
  /\ calc' = [calc EXCEPT !.phase = "evaluated",
                          !.eval = RiskDecision(calc.pnlPercent, Max2(calc.pnlPercent, 0),
                                                calc.holdingHours, calc.stopLossPercent)]
  /\ UNCHANGED <<price, exPos, balance, dbPos, trades, accountHistory, clock, tick,
                 exitArmed, halted, orderCount, lastOrder, moves, faults, zeroSeen, config,
                 decisions>>

NextRisk == SelectStopLoss \/ EvaluateRisk

SpecRisk == InitRisk /\ [][NextRisk]_vars

(***************************************************************************)
(* The polling loops that follow a placed order, each on its own: the      *)
(* order-status loop of openPosition, the position lookup after an open,   *)
(* the order-status loop of closePosition and the order-status loop of a   *)
(* forced close. One action is one pass of the loop body; the answer of    *)
(* the exchange to the query of that pass is drawn freely.                 *)
(***************************************************************************)
OpenMaxRetries == 3
LookupMaxRetries == 5
CloseMaxRetries == 3
ForcedMaxRetries == 5

PollLoops == {"open", "lookup", "close", "forced"}

maxRetries(loop) ==
  CASE loop = "open" -> OpenMaxRetries
    [] loop = "lookup" -> LookupMaxRetries
    [] loop = "close" -> CloseMaxRetries
    [] loop = "forced" -> ForcedMaxRetries

PollSizes == {1, 2}
PollLeverage == 10

\* A query that throws, and the order details a query can return.
QueryError == [ok |-> FALSE, status |-> "none", filled |-> 0, price |-> 0]

OrderDetails(size) ==
  {[ok |-> TRUE, status |-> st, filled |-> f, price |-> p] :
     st \in {"open", "finished", "cancelled"}, f \in {0, size}, p \in {0, 1000, 1030}}

\* The positions a lookup can return for the symbol: none, an empty one, or
\* an open one with or without a liquidation price.
PositionDetails(size) ==
  {[ok |-> TRUE, status |-> st, filled |-> f, price |-> p] :
     st \in {"absent", "present"}, f \in {0, size}, p \in {0, 905}}

\* The retry counter is left as it is after a failed query.
RetryCountKept(retryCount) == retryCount

\* retryCount++ after a failed query
RetryAfterFailure(retryCount) == retryCount + 1

\* The liquidation price estimated from the fill price when the exchange gave none.
EstimatedLiquidationPrice(fillPrice, leverage) == fillPrice - (fillPrice * 9) \div (10 * leverage)

PollInputs ==
  {[phase |-> "polling", loop |-> l, size |-> n, currentPrice |-> 1000,
    retryCount |-> 0, attempts |-> 0, confirmed |-> FALSE, status |-> "open",
    filled |-> 0, finalQuantity |-> n, finalPrice |-> 1000, liquidationPrice |-> 0,
    rejected |-> FALSE] : l \in PollLoops, n \in PollSizes}

InitPoll == ProgramInit /\ calc \in PollInputs

\* One pass of the order-status loop of openPosition.
PollOpenOrder ==
  /\ calc.phase = "polling" /\ calc.loop = "open"
  /\ calc.retryCount < OpenMaxRetries
  /\ \E orderDetail \in OrderDetails(calc.size) \cup {QueryError} :
       IF orderDetail.ok
       THEN LET actualFillPrice ==
                  IF orderDetail.price > 0 THEN orderDetail.price ELSE calc.finalPrice
                slipped ==
                  Abs(actualFillPrice - calc.currentPrice) * 100
                    > SlippagePercent * calc.currentPrice
            IN calc' = [calc EXCEPT !.phase = "ended",
                                    !.attempts = @ + 1,
                                    !.confirmed = TRUE,
                                    !.status = orderDetail.status,
                                    !.filled = orderDetail.filled,
                                    !.finalQuantity =
                                       IF orderDetail.filled > 0 THEN orderDetail.filled
                                       ELSE calc.size,
                                    !.finalPrice = actualFillPrice,
                                    !.rejected =
                                       \/ slipped
                                       \/ orderDetail.status = "cancelled"
                                       \/ orderDetail.filled = 0]
       ELSE LET retryCount == RetryAfterFailure(calc.retryCount)
            IN calc' = [calc EXCEPT !.retryCount = retryCount,
                                    !.attempts = @ + 1,
                                    !.phase = IF retryCount >= OpenMaxRetries
                                              THEN "ended" ELSE "polling",
                                    !.finalQuantity =
                                       IF retryCount >= OpenMaxRetries THEN calc.size ELSE @,
                                    !.finalPrice =
                                       IF retryCount >= OpenMaxRetries THEN calc.currentPrice ELSE @]
  /\ UNCHANGED <<price, exPos, balance, dbPos, trades, accountHistory, clock, tick,
                 exitArmed, halted, orderCount, lastOrder, moves, faults, zeroSeen, config,
                 decisions>>

\* One pass of the position lookup that follows a filled open order.
PollOpenedPosition ==
  /\ calc.phase = "polling" /\ calc.loop = "lookup"
  /\ calc.retryCount < LookupMaxRetries
  /\ \E positions \in PositionDetails(calc.size) \cup {QueryError} :
       IF positions.ok /\ positions.status = "present" /\ positions.filled # 0
       THEN calc' = [calc EXCEPT !.phase = "ended",
                                 !.attempts = @ + 1,
                                 !.confirmed = TRUE,
                                 !.status = "finished",
                                 !.filled = positions.filled,
                                 !.liquidationPrice =
                                    IF positions.price = 0
                                    THEN EstimatedLiquidationPrice(calc.finalPrice, PollLeverage)
                                    ELSE positions.price]
       ELSE LET retryCount == RetryAfterFailure(calc.retryCount)
            IN calc' = [calc EXCEPT !.retryCount = retryCount,
                                    !.attempts = @ + 1,
                                    !.phase = IF retryCount >= LookupMaxRetries
                                              THEN "ended" ELSE "polling",
                                    !.liquidationPrice =
                                       IF retryCount >= LookupMaxRetries
                                       THEN EstimatedLiquidationPrice(calc.finalPrice, PollLeverage)
                                       ELSE 0]
  /\ UNCHANGED <<price, exPos, balance, dbPos, trades, accountHistory, clock, tick,
                 exitArmed, halted, orderCount, lastOrder, moves, faults, zeroSeen, config,
                 decisions>>

\* One pass of the order-status loop of closePosition.
PollCloseOrder ==
  /\ calc.phase = "polling" /\ calc.loop = "close"
  /\ calc.retryCount < CloseMaxRetries
  /\ \E orderDetail \in OrderDetails(calc.size) \cup {QueryError} :
       IF orderDetail.ok
       THEN calc' = [calc EXCEPT !.phase = "ended",
                                 !.attempts = @ + 1,
                                 !.confirmed = TRUE,
                                 !.status = orderDetail.status,
                                 !.filled = orderDetail.filled,
                                 !.finalQuantity =
                                    IF orderDetail.filled > 0 THEN orderDetail.filled
                                    ELSE calc.finalQuantity,
                                 !.finalPrice =
                                    IF orderDetail.price > 0 THEN orderDetail.price
                                    ELSE calc.finalPrice]
       ELSE LET retryCount == RetryAfterFailure(calc.retryCount)
            IN calc' = [calc EXCEPT !.retryCount = retryCount,
                                    !.attempts = @ + 1,
                                    !.phase = IF retryCount >= CloseMaxRetries
                                              THEN "ended" ELSE "polling",
                                    !.finalQuantity =
                                       IF retryCount >= CloseMaxRetries THEN calc.size ELSE @,
                                    !.finalPrice =
                                       IF retryCount >= CloseMaxRetries THEN calc.currentPrice ELSE @]
  /\ UNCHANGED <<price, exPos, balance, dbPos, trades, accountHistory, clock, tick,
                 exitArmed, halted, orderCount, lastOrder, moves, faults, zeroSeen, config,
                 decisions>>

\* One pass of the order-status loop of a forced close: for (retry = 0; retry < 5; retry++).
PollForcedClose ==
  /\ calc.phase = "polling" /\ calc.loop = "forced"
  /\ calc.retryCount < ForcedMaxRetries
  /\ \E orderStatus \in OrderDetails(calc.size) \cup {QueryError} :
       IF orderStatus.ok /\ orderStatus.status = "finished"
       THEN calc' = [calc EXCEPT !.phase = "ended",
                                 !.attempts = @ + 1,
                                 !.confirmed = TRUE,
                                 !.status = orderStatus.status,
                                 !.filled = orderStatus.filled,
                                 !.finalQuantity = orderStatus.filled,
                                 !.finalPrice =
                                    IF orderStatus.price # 0 THEN orderStatus.price
                                    ELSE calc.currentPrice]
       ELSE LET retry == RetryAfterFailure(calc.retryCount)
            IN calc' = [calc EXCEPT !.retryCount = retry,
                                    !.attempts = @ + 1,
                                    !.phase = IF retry >= ForcedMaxRetries
                                              THEN "ended" ELSE "polling"]
  /\ UNCHANGED <<price, exPos, balance, dbPos, trades, accountHistory, clock, tick,
                 exitArmed, halted, orderCount, lastOrder, moves, faults, zeroSeen, config,
                 decisions>>

NextPoll == PollOpenOrder \/ PollOpenedPosition \/ PollCloseOrder \/ PollForcedClose

SpecPoll == InitPoll /\ [][NextPoll]_vars

(***************************************************************************)
(* The decision parser on its own: executeDecisions carries out the open   *)
(* and close decisions parsed from the text of the agent.  The exchange    *)
(* position and the positions table are drawn, each with or without the    *)
(* position; a tick is at its agent call, so the closePosition tool can    *)
(* run as well.                                                            *)
(***************************************************************************)
ParsedDecisions ==
  {[action |-> "open", symbol |-> "BTC", side |-> sd, amount |-> 100, leverage |-> 10] :
     sd \in {"long", "short"}}
  \cup {[action |-> "close", symbol |-> "BTC", side |-> "none", amount |-> 0,
         leverage |-> 0]}

\* Positions the exchange may hold and rows the positions table may hold.
ParserPositions ==
  {NoPos} \cup {[side |-> sd, qty |-> q, entry |-> 1000, lev |-> 10, seen |-> 0] :
                  sd \in {"long", "short"}, q \in {1, 2}}

ParserRows ==
  {<<>>} \cup {<<[symbol |-> "BTC", side |-> sd, qty |-> q, entry |-> 1000, lev |-> 10,
                  peak |-> 0, openedAt |-> 0, orderId |-> 0]>> :
                 sd \in {"long", "short"}, q \in {1, 2}}

\* No decision has been carried out.
NoDecision == [phase |-> "none", action |-> "none", found |-> FALSE, live |-> FALSE,
               placed |-> FALSE]

\* LOT_SIZE step and smallest quantity of the market, in contracts, and the
\* smallest notional value of an order.
ParserStepSize == 1
ParserMinQty == 1
ParserMinNotional == 5

InitParser ==
  /\ price \in [Symbols -> PricesOf("BTC")]
  /\ exPos \in [Symbols -> ParserPositions]
  /\ balance = 160
  /\ dbPos \in ParserRows
  /\ trades = <<>>
  /\ accountHistory = [initial |-> balance, peak |-> balance]
  /\ clock = 0
  /\ tick = [t \in Ticks |-> IF t = "t1" THEN [IdleTick EXCEPT !.pc = "agent"]
                             ELSE IdleTick]
  /\ exitArmed = FALSE
  /\ halted = FALSE
  /\ orderCount = 0
  /\ lastOrder = NoOrder
  /\ moves = 0
  /\ faults = 0
  /\ zeroSeen = FALSE
  /\ config = [reversePositions |-> FALSE]
  /\ decisions = 0
  /\ calc = NoDecision

\* executeDecisions, for one decision of the list.  The calls getMarkets,
\* openPosition and closePosition are no members of IExchangeClient: on an
\* adapter without them the call throws and the catch of the loop logs it
\* (adapterHas = FALSE); on an adapter with them the order is placed.
ExecuteDecision(decision) ==
  /\ ~halted
  /\ AgentRunning
  /\ \E adapterHas \in BOOLEAN :
       LET s == decision.symbol
           currentPrice == price[s]
           quantity ==
             (((decision.amount * decision.leverage) \div currentPrice)
                \div ParserStepSize) * ParserStepSize
           rows == RowsOf(dbPos, s)
           position == rows[1]
           done == [phase |-> "done", action |-> decision.action,
                    found |-> rows # <<>>, live |-> exPos[s].qty > 0, placed |-> FALSE]
       IN  IF decision.action = "open"
           THEN IF ~adapterHas \/ quantity < ParserMinQty
                     \/ quantity * currentPrice < ParserMinNotional
                THEN /\ calc' = [done EXCEPT !.found = FALSE]
                     /\ UNCHANGED <<exPos, orderCount, lastOrder, trades, dbPos>>
                ELSE /\ orderCount < MaxOrders
                     /\ Len(trades) < MaxTrades
                     /\ calc' = [done EXCEPT !.found = FALSE, !.placed = TRUE]
                     /\ exPos' = FillOrder(exPos, s, decision.side, quantity,
                                           decision.leverage, FALSE, currentPrice)
                     /\ orderCount' = orderCount + 1
                     /\ lastOrder' = [NoOrder EXCEPT !.kind = "parserOpen", !.symbol = s,
                                                     !.side = decision.side,
                                                     !.qty = quantity,
                                                     !.lev = decision.leverage,
                                                     !.intentSide = decision.side,
                                                     !.existing = exPos[s].side,
                                                     !.amountUsdt = decision.amount,
                                                     !.request = currentPrice,
                                                     !.fill = currentPrice,
                                                     !.success = TRUE]
                     /\ dbPos' = Append(dbPos, [symbol |-> s, side |-> decision.side,
                                                qty |-> quantity, entry |-> currentPrice,
                                                lev |-> decision.leverage, peak |-> 0,
                                                openedAt |-> NowHours, orderId |-> 0])
                     /\ trades' = Append(trades,
                                    [type |-> "open", symbol |-> s, side |-> decision.side,
                                     price |-> currentPrice, qty |-> quantity,
                                     lev |-> decision.leverage, pnl |-> 0,
                                     fee |-> Fee(currentPrice, quantity, 1),
                                     status |-> "filled"])
           ELSE IF rows = <<>> \/ ~adapterHas
                THEN /\ calc' = done
                     /\ UNCHANGED <<exPos, orderCount, lastOrder, trades, dbPos>>
                ELSE /\ orderCount < MaxOrders
                     /\ Len(trades) < MaxTrades
                     /\ calc' = [done EXCEPT !.placed = TRUE]
                     /\ exPos' = FillOrder(exPos, s, Opposite(position.side), position.qty,
                                           0, FALSE, currentPrice)
                     /\ orderCount' = orderCount + 1
                     /\ lastOrder' = [NoOrder EXCEPT !.kind = "parserClose", !.symbol = s,
                                                     !.side = Opposite(position.side),
                                                     !.qty = position.qty,
                                                     !.intentSide = Opposite(position.side),
                                                     !.existing = exPos[s].side,
                                                     !.request = currentPrice,
                                                     !.fill = currentPrice,
                                                     !.success = TRUE]
                     /\ dbPos' = DeleteSymbol(dbPos, s)
                     /\ trades' = Append(trades,
                                    [type |-> "close", symbol |-> s, side |-> position.side,
                                     price |-> currentPrice, qty |-> position.qty,
                                     lev |-> position.lev,
                                     pnl |-> (IF position.side = "long"
                                              THEN currentPrice - position.entry
                                              ELSE position.entry - currentPrice)
                                               * position.qty * PnlScale,
                                     fee |-> Fee(currentPrice, position.qty, 1),
                                     status |-> "filled"])
  /\ UNCHANGED <<price, balance, accountHistory, clock, tick,
                 exitArmed, halted, moves, faults, zeroSeen, config,
                 decisions>>

NextParser ==
  \/ \E decision \in ParsedDecisions : ExecuteDecision(decision)
  \/ \E c \in CloseIntents : ClosePosition(c.symbol, c.percentage)

SpecParser == InitParser /\ [][NextParser]_vars

(***************************************************************************)
(* Step 1 of the tick on its own: collectMarketData fetches ticker and     *)
(* candles symbol by symbol, and executeTradingDecision goes on when at    *)
(* least one symbol has data.  The answers of the exchange are drawn       *)
(* freely for every symbol.                                                *)
(***************************************************************************)
TickerMaxRetries == 2

\* A ticker query throws, or returns a lastPrice that is not finite, 0 or a price.
TickerAnswers ==
  {[ok |-> FALSE, finite |-> TRUE, lastPrice |-> 0],
   [ok |-> TRUE, finite |-> FALSE, lastPrice |-> 0],
   [ok |-> TRUE, finite |-> TRUE, lastPrice |-> 0],
   [ok |-> TRUE, finite |-> TRUE, lastPrice |-> 1000]}

\* Every price passes the validation.
AcceptsAnyPrice(ticker) == FALSE

\* price === 0 || !Number.isFinite(price)
InvalidPrice(ticker) == ticker.lastPrice = 0 \/ ~ticker.finite

\* The attempts of the retry loop that end it with a ticker.
TickerAttempts(answers) ==
  {i \in 1..(TickerMaxRetries + 1) : answers[i].ok /\ ~InvalidPrice(answers[i])}

\* The exchange answered one of the ticker queries of the loop with a finite
\* non-zero price and answered the candle queries.
DeliveredValid(answers, candlesOk) ==
  /\ candlesOk
  /\ \E i \in 1..(TickerMaxRetries + 1) :
       answers[i].ok /\ answers[i].finite /\ answers[i].lastPrice # 0

NoMarketData == [present |-> FALSE, price |-> 0]

MarketInit ==
  [phase |-> "collect", k |-> 0, marketData |-> [s \in TradingSymbols |-> NoMarketData],
   delivered |-> {}, answers |-> [i \in 1..(TickerMaxRetries + 1) |->
                                      [ok |-> FALSE, finite |-> TRUE, lastPrice |-> 0]],
   candlesOk |-> FALSE]

InitMarket == ProgramInit /\ calc = MarketInit

\* The body of the loop over SYMBOLS for the next symbol: a ticker that
\* fails on every attempt, or a candle query that throws, is caught per symbol.
CollectSymbol ==
  /\ calc.phase = "collect"
  /\ calc.k < Len(SymOrder)
  /\ \E answers \in [1..(TickerMaxRetries + 1) -> TickerAnswers], candlesOk \in BOOLEAN :
       LET symbol == SymOrder[calc.k + 1]
           attempts == TickerAttempts(answers)
           ticker == answers[CHOOSE i \in attempts : \A j \in attempts : i <= j]
       IN  calc' = [calc EXCEPT
                      !.k = @ + 1,
                      !.answers = answers,
                      !.candlesOk = candlesOk,
                      !.delivered = IF DeliveredValid(answers, candlesOk)
                                    THEN @ \cup {symbol} ELSE @,
                      !.marketData =
                         IF attempts # {} /\ candlesOk
                         THEN [@ EXCEPT ![symbol] = [present |-> TRUE,
                                                     price |-> ticker.lastPrice]]
                         ELSE @]
  /\ UNCHANGED <<price, exPos, balance, dbPos, trades, accountHistory, clock, tick,
                 exitArmed, halted, orderCount, lastOrder, moves, faults, zeroSeen, config,
                 decisions>>

\* validSymbols of executeTradingDecision: without one the tick returns.
CheckValidSymbols ==
  /\ calc.phase = "collect"
  /\ calc.k = Len(SymOrder)
  /\ LET validSymbols ==
           {s \in TradingSymbols : calc.marketData[s].present /\ calc.marketData[s].price # 0}
     IN  calc' = [calc EXCEPT !.phase = IF validSymbols = {} THEN "skipped" ELSE "account"]
  /\ UNCHANGED <<price, exPos, balance, dbPos, trades, accountHistory, clock, tick,
                 exitArmed, halted, orderCount, lastOrder, moves, faults, zeroSeen, config,
                 decisions>>

NextMarket == CollectSymbol \/ CheckValidSymbols

SpecMarket == InitMarket /\ [][NextMarket]_vars

(***************************************************************************)
(* The size of the closing order of closePosition on its own: the live     *)
(* quantity and the percentage are drawn, the size is computed and handed   *)
(* to placeOrder.                                                          *)
(***************************************************************************)
\* Live quantities in thousandths: whole contracts of Gate, fractions of a
\* coin of Binance.
CloseQuantities == {1, 3, 250, 500, 999, 1000, 1500, 2000, 2500, 3000, 7000, 100000}

\* percentage: z.number().min(1).max(100)
ClosePercentages == {1, 10, 25, 33, 50, 75, 99, 100}

CloseSizeInputs ==
  {[phase |-> "input", quantity |-> q, percentage |-> pc, closeSize |-> 0] :
     q \in CloseQuantities, pc \in ClosePercentages}

InitCloseSize == ProgramInit /\ calc \in CloseSizeInputs

\* closePosition from the position it found to its call of placeOrder.
PlaceCloseOrder ==
  /\ calc.phase = "input"
  /\ calc' = [calc EXCEPT !.phase = "placed",
                          !.closeSize = CloseSize(calc.quantity, calc.percentage)]
  /\ UNCHANGED <<price, exPos, balance, dbPos, trades, accountHistory, clock, tick,
                 exitArmed, halted, orderCount, lastOrder, moves, faults, zeroSeen, config,
                 decisions>>

NextCloseSize == PlaceCloseOrder

SpecCloseSize == InitCloseSize /\ [][NextCloseSize]_vars

(***************************************************************************)
(* The end-of-tick PnL corrector after the tools have traded on a position *)
(* that is already open when the decision generator runs: the generator    *)
(* adds to it or closes it, and the tick ends with reconciliation and      *)
(* fixHistoricalPnlRecords.                                                *)
(***************************************************************************)
\* Positions held on the exchange when the generator is invoked.
HeldBefore == {[side |-> sd, qty |-> q, entry |-> e, lev |-> 10, seen |-> 0] :
                 sd \in {"long", "short"}, q \in {1, 2}, e \in PricesOf("BTC")}

InitCorrector ==
  /\ price \in [Symbols -> PricesOf("BTC")]
  /\ exPos \in [Symbols -> HeldBefore]
  /\ balance = 200
  /\ dbPos = syncPositionsFromGate(<<>>, ExchangePositions(exPos), 0)
  /\ trades = <<>>
  /\ accountHistory = [initial |-> balance, peak |-> balance]
  /\ clock = 0
  /\ tick = [t \in Ticks |-> IF t = "t1" THEN [IdleTick EXCEPT !.pc = "agent"]
                             ELSE IdleTick]
  /\ exitArmed = FALSE
  /\ halted = FALSE
  /\ orderCount = 0
  /\ lastOrder = NoOrder
  /\ moves = 0
  /\ faults = 0
  /\ zeroSeen = FALSE
  /\ config = [reversePositions |-> FALSE]
  /\ decisions = 0
  /\ calc = NoCalc

NextCorrector ==
  \/ \E i \in OpenIntents : OpenPosition(i.symbol, i.side, i.leverage, i.amountUsdt)
  \/ \E c \in CloseIntents : ClosePosition(c.symbol, c.percentage)
  \/ \E s \in Symbols, p \in PricesOf("BTC") : PriceMove(s, p)
  \/ \E t \in Ticks : AgentReturn(t)

SpecCorrector == InitCorrector /\ [][NextCorrector]_vars

(***************************************************************************)
(* The PnL arithmetic of a close on its own: the inputs are drawn, the net *)
(* PnL is computed as closePosition computes it from the fill, and the     *)
(* supplied pnl goes through the check run before the Trade is written.    *)
(***************************************************************************)
CalcKinds == {"net", "gross", "notional", "belowNotional", "midway", "aboveMidway", "zero"}

\* The pnl handed to the check, by what it was mistaken for.
CalcSupplied(side, entry, exit, qty, mult, kind) ==
  LET notional == exit * qty * mult * PnlScale
      net == NetPnl(side, entry, exit, qty, mult)
  IN  CASE kind = "net" -> net
        [] kind = "gross" -> GrossPnl(side, entry, exit, qty, mult)
        [] kind = "notional" -> notional
        [] kind = "belowNotional" -> notional - PnlScale
        [] kind = "midway" -> (notional + net) \div 2
        [] kind = "aboveMidway" -> (notional + net) \div 2 + 1
        [] OTHER -> 0

CalcInputs ==
  {[NoCalc EXCEPT !.phase = "input", !.side = s, !.entry = e, !.exit = x, !.qty = q,
                  !.mult = m, !.supplied = CalcSupplied(s, e, x, q, m, k)] :
     s \in {"long", "short"}, e \in {100, 1000}, x \in {90, 110, 997}, q \in {1, 10},
     m \in {1, 10}, k \in CalcKinds}

InitCalc == ProgramInit /\ calc \in CalcInputs

\* closePosition: gross PnL, both fees and the net PnL from the fill
ComputeNetPnl ==
  /\ calc.phase = "input"
  /\ calc' = [calc EXCEPT
                !.phase = "net",
                !.gross = GrossPnl(calc.side, calc.entry, calc.exit, calc.qty, calc.mult),
                !.openFee = Fee(calc.entry, calc.qty, calc.mult),
                !.closeFee = Fee(calc.exit, calc.qty, calc.mult),
                !.net = NetPnl(calc.side, calc.entry, calc.exit, calc.qty, calc.mult)]
  /\ UNCHANGED <<price, exPos, balance, dbPos, trades, accountHistory, clock, tick,
                 exitArmed, halted, orderCount, lastOrder, moves, faults, zeroSeen, config,
                 decisions>>

\* closePosition: the check of the pnl against the notional value
CheckPnl ==
  /\ calc.phase = "net"
  /\ calc' = [calc EXCEPT
                !.phase = "written",
                !.written = CheckedPnl(calc.supplied, calc.side, calc.entry, calc.exit,
                                       calc.qty, calc.mult, calc.openFee + calc.closeFee)]
  /\ UNCHANGED <<price, exPos, balance, dbPos, trades, accountHistory, clock, tick,
                 exitArmed, halted, orderCount, lastOrder, moves, faults, zeroSeen, config,
                 decisions>>

NextCalc == ComputeNetPnl \/ CheckPnl

SpecCalc == InitCalc /\ [][NextCalc]_vars

(***************************************************************************)
(* Properties                                                              *)
(***************************************************************************)
ActiveTicks == {t \in Ticks : tick[t].pc # "idle"}

\* An evaluation of the forced risk control by tick t, and the position of
\* the tick's snapshot it evaluates.
RiskEvaluated(t) ==
  /\ tick[t].pc = "risk"
  /\ tick[t].i <= Len(tick[t].positions)
  /\ tick'[t].pc = "risk"
  /\ tick'[t].i = tick[t].i + 1
EvaluatedPos(t) == tick[t].positions[tick[t].i]

\* C1: ticks never overlap: at most one executeTradingDecision invocation is
\* active at any time, a firing that finds one running being skipped.
C1_SingleActiveTick == Cardinality(ActiveTicks) <= 1

\* The position on s is open before and after the step, with its local row.
StaysOpen(s) ==
  /\ exPos[s].qty > 0
  /\ exPos'[s].qty > 0
  /\ exPos'[s].side = exPos[s].side
  /\ HasRow(dbPos, s)
  /\ HasRow(dbPos', s)

\* C2: for a position that stays open, no operation (risk evaluation, the
\* reconciliations before and after the decision, a same-side add, the
\* syncPositions tool) lowers or resets the persisted peakPnlPercent.
C2_PeakNonDecreasing ==
  [][\A s \in Symbols :
       StaysOpen(s) => MapGet(dbPos', s).peak >= MapGet(dbPos, s).peak]_vars

\* C3: no reconciliation (a step that places no order) deletes the local
\* position rows on the first observation that the exchange reports zero
\* positions while local rows exist.
C3_NoDeleteOnFirstZero ==
  [][(/\ orderCount' = orderCount
      /\ ObservesZero(ExchangePositions(exPos), dbPos)
      /\ ~zeroSeen)
     => dbPos' # <<>>]_vars

\* C4: a position held for 36 hours or more is evaluated to close with
\* reason MAX_HOLD_TIME whatever its PnL%, also when the stop loss is
\* breached in the same evaluation.
C4_MaxHoldTimeFirst ==
  [][\A t \in Ticks :
       (RiskEvaluated(t) /\ NowHours - EvaluatedPos(t).openedAt >= MaxHoldHours)
       => tick'[t].eval = [close |-> TRUE, reason |-> "MAX_HOLD_TIME"]]_vars

\* C5: a position whose PnL% an earlier evaluation saw at 8% or more (and
\* below 15%: trailing floor 3%) and whose PnL% is now below that floor but
\* above its stop-loss line is closed with reason TRAILING_STOP.
C5_TrailingStopFires ==
  [][\A t \in Ticks :
       (/\ RiskEvaluated(t)
        /\ LET pos == EvaluatedPos(t)
               pnlPercent == PnlPercent(pos.side, pos.entry, pos.cur, pos.lev)
           IN  /\ exPos[pos.symbol].qty > 0
               /\ exPos[pos.symbol].side = pos.side
               /\ exPos[pos.symbol].seen >= 800
               /\ exPos[pos.symbol].seen < 1500
               /\ pnlPercent < 300
               /\ pnlPercent > StopLossPercent(TradingStrategy, pos.lev)
               /\ NowHours - pos.openedAt < MaxHoldHours)
       => tick'[t].eval = [close |-> TRUE, reason |-> "TRAILING_STOP"]]_vars

\* C6: a tick in which the drawdown of the account total from its recorded
\* peak is at or above the force-close percentage (boundary included) does
\* not pass the account guard on to reconciliation and the decision.
C6_DrawdownForceClose ==
  [][\A t \in Ticks :
       (tick[t].pc = "account" /\ tick'[t].pc = "sync")
       => (accountHistory.peak - balance) * 100
            < ForceClosePercent * accountHistory.peak]_vars

\* C7: a tick that finds the account total at or below the absolute stop
\* loss or at or above the absolute take profit does not go on to the
\* decision, and when it ends the process exit is pending or done, so that
\* no later tick reaches its decision.
C7_AbsoluteThresholdHalts ==
  [][\A t \in Ticks :
       /\ (tick[t].pc = "account" /\ tick'[t].pc = "sync")
          => (balance > StopLossUsdt /\ balance < TakeProfitUsdt)
       /\ tick[t].pc = "closeAll" => tick'[t].pc \in {"closeAll", "idle"}
       /\ (tick[t].pc = "closeAll" /\ tick'[t].pc # "closeAll")
          => (exitArmed' \/ halted')]_vars

\* C8: every symbol has at most one local position row, and no opening
\* order is placed for an intent whose side is opposite to the position
\* open on that symbol.
C8_NoDualDirection ==
  /\ \A s \in Symbols : Len(RowsOf(dbPos, s)) <= 1
  /\ lastOrder.kind = "open" => lastOrder.existing # Opposite(lastOrder.intentSide)

\* C9: every opening order the exchange accepted has a leverage within
\* [leverageMin, leverageMax] of the active trading strategy.
C9_LeverageInStrategyRange ==
  lastOrder.kind = "open"
  => /\ lastOrder.lev >= getStrategyParams(TradingStrategy).leverageMin
     /\ lastOrder.lev <= getStrategyParams(TradingStrategy).leverageMax

\* C10: every close trade row, when it is written (ticks not overlapping, so
\* that the position closed is the one on the exchange), has pnl equal to
\* gross - (openFee + closeFee) computed from the entry price, the recorded
\* exit price, the recorded quantity and the contract multiplier, also when
\* the fill was not confirmed.
C10_ClosePnlReconciles ==
  [][(/\ Len(trades') = Len(trades) + 1
      /\ trades'[Len(trades')].type = "close"
      /\ Cardinality(ActiveTicks) <= 1)
     => LET row == trades'[Len(trades')]
            pos == exPos[row.symbol]
        IN  (pos.qty > 0 /\ pos.side = row.side)
            => row.pnl = NetPnl(row.side, pos.entry, row.price, row.qty,
                                QuantoMultiplier(row.symbol))]_vars

\* C11: running the historical PnL corrector twice in a row over the trade
\* ledger leaves it as one run does: the second run updates no row.
C11_CorrectorIdempotent ==
  fixHistoricalPnlRecords(fixHistoricalPnlRecords(trades)) = fixHistoricalPnlRecords(trades)

\* A ledger in which a run of the corrector updates a close row.
C11_CorrectorUpdatesRow == fixHistoricalPnlRecords(trades) # trades

\* The inputs entry 100, exit 110, quantity 10, multiplier 1, long.
CalcExample ==
  /\ calc.side = "long"
  /\ calc.entry = 100
  /\ calc.exit = 110
  /\ calc.qty = 10
  /\ calc.mult = 1

C13_NetPnlFormula ==
  calc.phase \in {"net", "written"}
  => /\ calc.gross = (IF calc.side = "long" THEN calc.exit - calc.entry
                      ELSE calc.entry - calc.exit) * calc.qty * calc.mult * PnlScale
     /\ calc.openFee * 2000 = calc.entry * calc.qty * calc.mult * PnlScale
     /\ calc.closeFee * 2000 = calc.exit * calc.qty * calc.mult * PnlScale
     /\ calc.net = calc.gross - (calc.openFee + calc.closeFee)
     /\ CalcExample => /\ calc.gross = 1000000
                       /\ calc.openFee = 5000
                       /\ calc.closeFee = 5500
                       /\ calc.net = 989500

\* The net PnL of the example has been computed.
C13_ExampleComputed ==
  /\ calc.phase = "net"
  /\ CalcExample
  /\ calc.net = 989500

\* C14: an order placed by openPosition for an intent has the side of the
\* intent, under every configuration.
C14_OpenAsIntended ==
  lastOrder.kind = "open" => lastOrder.side = lastOrder.intentSide

\* C15: an open whose fill is more than 2% away from the request price is
\* never reported as success.
C15_OutOfToleranceNeverSuccess ==
  (/\ lastOrder.kind = "open"
   /\ lastOrder.fill > 0
   /\ (IF lastOrder.fill >= lastOrder.request THEN lastOrder.fill - lastOrder.request
       ELSE lastOrder.request - lastOrder.fill) * 100 > SlippagePercent * lastOrder.request)
  => ~lastOrder.success

\* C16: a run of openPosition that places an order and returns success=false
\* appends no Trade row and leaves the Position rows unchanged.
C16_FailedOpenWritesNothing ==
  [][(/\ orderCount' # orderCount
      /\ lastOrder'.kind \in {"open", "rollback"}
      /\ ~lastOrder'.success)
     => (trades' = trades /\ dbPos' = dbPos)]_vars

\* C17: a forced risk close whose fill is not confirmed within the poll
\* budget leaves the local Position row of the symbol in place.
C17_UnconfirmedCloseKeepsRow ==
  [][(/\ orderCount' # orderCount
      /\ lastOrder'.kind = "forced"
      /\ ~lastOrder'.success
      /\ HasRow(dbPos, lastOrder'.symbol))
     => HasRow(dbPos', lastOrder'.symbol)]_vars

\* C18: the positions a tick puts through the forced risk control before it
\* calls the agent include every position open on the exchange when the tick
\* fetched them, also in a tick whose fetch or reconciliation failed.
C18_RiskControlBeforeAgent ==
  [][\A t \in Ticks :
       (tick[t].pc = "sync" /\ tick'[t].pc = "risk")
       => \A s \in Symbols :
            exPos[s].qty > 0
            => \E k \in 1..Len(tick'[t].positions) : tick'[t].positions[k].symbol = s]_vars

C20_ExposureWithinLimit ==
  [][(/\ orderCount' # orderCount
      /\ lastOrder'.kind = "open"
      /\ lastOrder'.success
      /\ lastOrder'.fill = lastOrder'.request)
     => TotalExposure(ExchangePositions(exPos')) <= MAX_LEVERAGE * balance]_vars

\* C21: a same-side add to an existing position is placed only with a size
\* of at most 50% of the existing position.
C21_AddWithinHalf ==
  [][(/\ orderCount' # orderCount
      /\ lastOrder'.kind = "open"
      /\ exPos[lastOrder'.symbol].qty > 0
      /\ lastOrder'.existing = lastOrder'.side)
     => 2 * lastOrder'.qty <= exPos[lastOrder'.symbol].qty]_vars

\* C22: the quantity openPosition orders never exceeds the quantity computed
\* from the amount, leverage, price and multiplier and floored to whole
\* contracts; a floor below the minimum order size places no order.
C22_QuantityWithinFloor ==
  [][(orderCount' # orderCount /\ lastOrder'.kind = "open")
     => lastOrder'.qty
          <= (lastOrder'.amountUsdt * lastOrder'.lev)
               \div (QuantoMultiplier(lastOrder'.symbol) * lastOrder'.request)]_vars

\* C23: a restart of the process leaves the persisted Trade, Position and
\* AccountSnapshot rows as they were before it.
C23_RestartKeepsRows ==
  [][(halted /\ ~halted')
     => (trades' = trades /\ dbPos' = dbPos /\ accountHistory' = accountHistory)]_vars

\* C24: a position whose PnL% an earlier evaluation saw above 5% (and below
\* 8%, so that no trailing floor was reached) and whose PnL% has now fallen
\* by 30% of that peak or more, above its stop-loss line and within the
\* holding limit, is closed with reason PEAK_DRAWDOWN.
C24_PeakDrawdownFires ==
  [][\A t \in Ticks :
       (/\ RiskEvaluated(t)
        /\ LET pos == EvaluatedPos(t)
               pnlPercent == PnlPercent(pos.side, pos.entry, pos.cur, pos.lev)
               peak == exPos[pos.symbol].seen
           IN  /\ exPos[pos.symbol].qty > 0
               /\ exPos[pos.symbol].side = pos.side
               /\ exPos[pos.symbol].entry = pos.entry
               /\ peak > 500
               /\ peak < 800
               /\ (peak - pnlPercent) * 100 >= 30 * peak
               /\ pnlPercent > StopLossPercent(TradingStrategy, pos.lev)
               /\ NowHours - pos.openedAt < MaxHoldHours)
       => tick'[t].eval = [close |-> TRUE, reason |-> "PEAK_DRAWDOWN"]]_vars

C26_RiskControlEveryTick ==
  [][\A t \in Ticks :
       (tick[t].pc \in {"market", "account"} /\ tick'[t].pc = "idle" /\ ~halted')
       => ExchangePositions(exPos) = <<>>]_vars

\* C27: when the exchange reports no position while local Position rows
\* exist, the rows are eventually removed, unless the exchange reports a
\* position again or the process exits.
C27_StaleRowsRemoved ==
  (ObservesZero(ExchangePositions(exPos), dbPos) /\ ~halted)
    ~> (dbPos = <<>> \/ ExchangePositions(exPos) # <<>> \/ halted)

\* C28: for a position that stays open, a step that places no order (a
\* reconciliation, the syncPositions tool, a forced-close attempt that does
\* not close it) leaves the openedAt and the linked order id of its local
\* row unchanged.
C28_MetadataPreserved ==
  [][\A s \in Symbols :
       (StaysOpen(s) /\ orderCount' = orderCount)
       => /\ MapGet(dbPos', s).openedAt = MapGet(dbPos, s).openedAt
          /\ MapGet(dbPos', s).orderId = MapGet(dbPos, s).orderId]_vars

PollEndedFilled ==
  calc.confirmed /\ calc.filled > 0 /\ calc.status # "cancelled"

PollEndedUnfilled ==
  calc.confirmed /\ (calc.status = "cancelled" \/ calc.filled = 0)

PollEndedUnknown ==
  /\ ~calc.confirmed
  /\ calc.retryCount = maxRetries(calc.loop)
  /\ calc.finalQuantity = calc.size
  /\ calc.finalPrice = calc.currentPrice
  /\ calc.loop = "lookup" =>
       calc.liquidationPrice = EstimatedLiquidationPrice(calc.finalPrice, PollLeverage)

C31_FilledOnlyWhenConfirmed ==
  [][(Len(trades') = Len(trades) + 1 /\ trades'[Len(trades')].status = "filled")
       => lastOrder'.confirmed]_vars

\* C32: a close takes existence, side and quantity of the position from the
\* exchange: a close order is placed only against a position the exchange
\* holds, on its opposite side and for no more than its quantity, and a close
\* decision goes on to its order exactly when the exchange holds a position.
C32_CloseFromLivePosition ==
  [][/\ (orderCount' # orderCount /\ lastOrder'.kind \in {"close", "parserClose"}) =>
          /\ exPos[lastOrder'.symbol].qty > 0
          /\ lastOrder'.side = Opposite(exPos[lastOrder'.symbol].side)
          /\ lastOrder'.qty <= exPos[lastOrder'.symbol].qty
     /\ (calc' # calc /\ calc'.phase = "done" /\ calc'.action = "close") =>
          calc'.found = calc'.live]_vars

\* C33: every tick that starts appends one row to agent_decisions before it
\* ends, also when it ends early or the agent fails.
C33_AuditRecordPerTick ==
  [][\A t \in Ticks :
       (tick[t].pc # "idle" /\ tick'[t].pc = "idle" /\ ~halted')
         => decisions' = decisions + 1]_vars

\* C34: a tick that called the agent ends with the positions table
\* reconciled against the exchange, whether the agent returned or failed:
\* the table holds the exchange's positions (or is kept when the exchange
\* reports none while rows exist), unless the position query itself failed.
ReconciledWith(raw, before, after) ==
  IF ObservesZero(raw, before) THEN after = before
  ELSE /\ Len(after) = Len(raw)
       /\ \A k \in 1..Len(raw) :
            /\ after[k].symbol = raw[k].symbol
            /\ after[k].side = raw[k].side
            /\ after[k].qty = raw[k].qty
            /\ after[k].entry = raw[k].entry

C35_OnlyFailedSymbolOmitted ==
  calc.phase \in {"collect", "account", "skipped"} =>
    /\ {s \in TradingSymbols : calc.marketData[s].present} = calc.delivered
    /\ \A s \in calc.delivered : calc.marketData[s].price > 0
    /\ calc.phase = "account" => calc.delivered # {}
    /\ calc.phase = "skipped" => calc.delivered = {}

\* The tick goes on with a snapshot that lacks a symbol whose data failed.
C35_ProceedsWithoutOneSymbol ==
  /\ calc.phase = "account"
  /\ calc.delivered # {}
  /\ calc.delivered # TradingSymbols
  /\ ~calc.marketData["BTC"].present
  /\ calc.marketData["ETH"].present

\* C36: the step that ends a tick after the generator, where the PnL
\* corrector runs, keeps the number of Trade rows, changes no field of a
\* row other than pnl and fee, leaves every open trade as it was, and leaves
\* the positions table as the reconciliation of the same step made it.
C36_CorrectorTouchesOnlyPnlAndFee ==
  [][\A t \in Ticks :
       (tick[t].pc = "agent" /\ tick'[t].pc = "idle") =>
         /\ Len(trades') = Len(trades)
         /\ \A k \in 1..Len(trades) :
              /\ [trades'[k] EXCEPT !.pnl = trades[k].pnl, !.fee = trades[k].fee] = trades[k]
              /\ trades[k].type = "open" => trades'[k] = trades[k]
         /\ \/ dbPos' = dbPos
            \/ dbPos' = syncPositionsFromGate(dbPos, ExchangePositions(exPos), NowHours)]_vars

\* The tick has ended and the corrector has rewritten the pnl of a close trade.
C36_CloseTradeRewritten ==
  /\ \A t \in Ticks : tick[t].pc = "idle"
  /\ Len(trades) = 2
  /\ trades[1].type = "open"
  /\ trades[2].type = "close"
  /\ lastOrder.kind = "close"
  /\ trades[2].pnl = NetPnl(trades[2].side, trades[1].price, trades[2].price, trades[2].qty,
                            QuantoMultiplier(trades[2].symbol))
  /\ trades[2].pnl # NetPnl(trades[2].side, lastOrder.entry, trades[2].price, trades[2].qty,
                            QuantoMultiplier(trades[2].symbol))

\* C37: a close trade whose recorded pnl is the net PnL from the entry price
\* the closed position actually had keeps that pnl when the corrector runs
\* at the end of the tick.
C37_CorrectPnlKept ==
  [][\A t \in Ticks :
       (/\ tick[t].pc = "agent"
        /\ tick'[t].pc = "idle"
        /\ lastOrder.kind = "close"
        /\ trades # <<>>
        /\ trades[Len(trades)].type = "close"
        /\ trades[Len(trades)].pnl =
             NetPnl(trades[Len(trades)].side, lastOrder.entry, trades[Len(trades)].price,
                    trades[Len(trades)].qty, QuantoMultiplier(trades[Len(trades)].symbol)))
       => trades'[Len(trades)].pnl = trades[Len(trades)].pnl]_vars

\* C40: the closing order of closePosition never has quantity 0, and with
\* percentage 100 its quantity is the full live quantity of the position,
\* also when that quantity is a fraction.
C40_CloseSizeNeverZero ==
  calc.phase = "placed" =>
    /\ calc.closeSize > 0
    /\ calc.percentage = 100 => calc.closeSize * QtyScale = calc.quantity

\* C38: every order that closes exposure (forced risk close, force-close-all,
\* closePosition, slippage rollback) reaches the exchange flagged reduce-only.
C38_ClosingOrdersReduceOnly ==
  [][(orderCount' # orderCount
        /\ lastOrder'.kind \in {"forced", "closeAll", "close", "rollback"})
     => lastOrder'.reduceOnly]_vars

\* C39: when an order opens a position on a symbol that held none and the
\* positions table is written for it, the openedAt of the symbol's row is
\* not earlier than that opening fill.
C39_OpenedAtNotInherited ==
  [][\A s \in Symbols :
       (exPos[s].qty = 0 /\ exPos'[s].qty > 0 /\ dbPos' # dbPos)
       => \A k \in 1..Len(dbPos') :
            dbPos'[k].symbol = s => dbPos'[k].openedAt >= NowHours]_vars
=============================================================================
